---------------------------- MODULE Spec2Model ----------------------------
(***************************************************************************)
(* A model of dbap (src/src/lib.rs): Distance-Based Amplitude Panning.     *)
(*                                                                         *)
(* The library is generic over a Scalar type S (lib.rs 12-40).  Here S is  *)
(* instantiated with exact rational arithmetic, extended with the values   *)
(* a floating-point division by zero produces (+Inf, -Inf, NaN), so the    *)
(* zero-distance policies of the code are visible.  A scalar is a pair     *)
(* <<n, d>>: the rational n/d in lowest terms with d > 0, or with d = 0    *)
(* one of <<1,0>> (+Inf), <<-1,0>> (-Inf), <<0,0>> (NaN).  Rounding,       *)
(* overflow and underflow of f32/f64 are not modelled, nor is the sign of  *)
(* zero.                                                                   *)
(***************************************************************************)
EXTENDS Integers, Sequences, FiniteSets, TLC

VARIABLES
    input_speakers, \* the caller's speaker slice handed to SpeakerGains::new
    rolloff_db,     \* the caller's rolloff handed to SpeakerGains::new
    self,           \* the SpeakerGains struct (speakers, a, k, i), once built
    pc,             \* "start" | "ready" | "panicked" | "fn"
    ret,            \* what the last call of next returned
    yielded,        \* history: the values next has yielded so far, in order
    ends,           \* history: how many calls of next returned None
    args,           \* arguments of a pure function under test
    result          \* its result

vars == <<input_speakers, rolloff_db, self, pc, ret, yielded, ends, args, result>>

-----------------------------------------------------------------------------
(* Bounds of the model *)

\* longest speaker slice the caller passes
MaxLen == 3

\* how many end-of-sequence returns of next are followed
MaxEnds == 2

-----------------------------------------------------------------------------
(* Scalar arithmetic: the operations the Scalar trait requires *)

Abs(n) == IF n < 0 THEN -n ELSE n

Sgn(n) == IF n < 0 THEN -1 ELSE IF n > 0 THEN 1 ELSE 0

RECURSIVE Gcd(_, _)
Gcd(m, n) == IF n = 0 THEN m ELSE Gcd(n, m % n)

\* the scalar n/d, in canonical form
Rat(n, d) ==
    IF d = 0 THEN <<Sgn(n), 0>>
    ELSE LET g == Gcd(Abs(n), Abs(d))
             s == Sgn(d)
         IN  <<(s * n) \div g, (s * d) \div g>>

NaN == <<0, 0>>
PosInf == <<1, 0>>
NegInf == <<-1, 0>>

IsNaN(x) == x = NaN
IsInf(x) == x[2] = 0 /\ x[1] # 0
IsFinite(x) == x[2] # 0

\* S::from(f32) for the literals the code converts (0, 2, 10, 20)
From(n) == Rat(n, 1)

\* PartialEq: NaN equals nothing
Eq(x, y) == ~IsNaN(x) /\ ~IsNaN(y) /\ x = y

\* Add
Add(x, y) ==
    IF IsNaN(x) \/ IsNaN(y) THEN NaN
    ELSE IF IsInf(x) /\ IsInf(y) THEN (IF x = y THEN x ELSE NaN)
    ELSE IF IsInf(x) THEN x
    ELSE IF IsInf(y) THEN y
    ELSE Rat(x[1] * y[2] + y[1] * x[2], x[2] * y[2])

\* Neg
Neg(x) == <<-x[1], x[2]>>

\* Sub
Sub(x, y) == Add(x, Neg(y))

\* Mul: 0 * Inf is NaN, as <<0 * 1, 1 * 0>> is
Mul(x, y) == Rat(x[1] * y[1], x[2] * y[2])

\* Div: x / 0 is +-Inf for x # 0 and NaN for x = 0; x / Inf is 0; Inf / Inf is NaN
Div(x, y) ==
    LET s == IF y[1] < 0 THEN -1 ELSE 1
    IN  Rat(s * x[1] * y[2], x[2] * Abs(y[1]))

RECURSIVE PowNat(_, _)
PowNat(b, n) == IF n = 0 THEN From(1) ELSE Mul(b, PowNat(b, n - 1))

\* Pow, for the exponents whose power is rational: the integers (every rolloff
\* drawn gives one; any other exponent is outside the model and reads as NaN)
Pow(b, e) ==
    IF e[2] # 1 THEN NaN
    ELSE IF e[1] >= 0 THEN PowNat(b, e[1])
    ELSE Div(From(1), PowNat(b, -e[1]))

\* Sum over an iterator: a left fold of Add from zero
RECURSIVE Sum(_)
Sum(xs) ==
    IF xs = <<>> THEN From(0)
    ELSE Add(Sum(SubSeq(xs, 1, Len(xs) - 1)), xs[Len(xs)])

-----------------------------------------------------------------------------
(* The inputs the model draws *)

\* distances: zero, and positive ones below, at and above one
DistVals == {Rat(0, 1), Rat(1, 2), Rat(1, 1), Rat(2, 1)}

\* weights: negative, zero, positive
WeightVals == {Rat(-1, 1), Rat(0, 1), Rat(2, 1)}

\* Speaker { distance, weight }
Speaker == [distance : DistVals, weight : WeightVals]

SpeakerSeqs == UNION {[1..n -> Speaker] : n \in 0..MaxLen}

\* rolloffs in dB whose a coefficient is rational
RolloffVals == {Rat(0, 1), Rat(20, 1), Rat(-20, 1)}

\* coordinates and blurs for blurred_distance_2
CoordVals == {Rat(-1, 1), Rat(0, 1), Rat(1, 2), Rat(2, 1)}
Points == {<<x, y>> : x \in CoordVals, y \in CoordVals}
BlurVals == {Rat(-1, 1), Rat(0, 1), Rat(1, 2)}

-----------------------------------------------------------------------------
(* The pure functions *)

\* a slip: the blur added without being squared
blurred_distance_2_unsquared(source, speaker, blur) ==
    LET x == Sub(speaker[1], source[1])
        y == Sub(speaker[2], source[2])
    IN  Add(Add(Mul(x, x), Mul(y, y)), blur)

\* x * x + y * y + blur * blur
blurred_distance_2(source, speaker, blur) ==
    LET x == Sub(speaker[1], source[1])
        y == Sub(speaker[2], source[2])
    IN  Add(Add(Mul(x, x), Mul(y, y)), Mul(blur, blur))

\* a slip: the distance not doubled
v_speaker_relative_amplitude_undoubled(speaker, k, a) ==
    Div(Mul(k, speaker.weight), Mul(speaker.distance, a))

\* k * weight / ((distance + distance) * a)
v_speaker_relative_amplitude(speaker, k, a) ==
    Div(Mul(k, speaker.weight), Mul(Add(speaker.distance, speaker.distance), a))

\* 10 ^ (-rolloff_db / 20)
a_coefficient(r) == Pow(From(10), Div(Neg(r), From(20)))

\* a slip: no special case for a distance of zero
k_term_nozero(s) ==
    Div(Mul(s.weight, s.weight), Mul(s.distance, s.distance))

\* the closure mapped over the speakers: one speaker's share of the sum
k_term(s) ==
    IF Eq(s.distance, From(0)) THEN From(0)
    ELSE Div(Mul(s.weight, s.weight), Mul(s.distance, s.distance))

k_sum(speakers) == Sum([j \in 1..Len(speakers) |-> k_term(speakers[j])])

k_coefficient(a, speakers) ==
    LET sum == k_sum(speakers)
    IN  IF Eq(sum, From(0)) THEN From(0)
        ELSE Div(Mul(From(2), a), sum)

-----------------------------------------------------------------------------
(* SpeakerGains: the lazy producer *)

\* Option<S>
None == [tag |-> "None"]
Some(v) == [tag |-> "Some", val |-> v]

\* no call of next yet
NoCall == [tag |-> "NoCall"]

\* no SpeakerGains built yet
NoSelf == [none |-> TRUE]

\* a slip: the assertion left out
new_assert_absent(speakers) == TRUE

\* assert!(speakers.len() > 0)
new_assert(speakers) == Len(speakers) > 0

\* the struct SpeakerGains::new returns
new_self(speakers, r) ==
    LET a == a_coefficient(r)
        k == k_coefficient(a, speakers)
    IN  [speakers |-> speakers, a_coefficient |-> a, k_coefficient |-> k, i |-> 0]

\* a slip: the relative amplitude multiplied by the distance
next_value_times_distance(sg, i) ==
    LET s == sg.speakers[i + 1]
        s_r_amp == v_speaker_relative_amplitude(s, sg.k_coefficient, sg.a_coefficient)
    IN  Mul(s_r_amp, s.distance)

\* a slip: the relative amplitude divided by the distance of the speaker after s
next_value_neighbour(sg, i) ==
    LET s == sg.speakers[i + 1]
        n == sg.speakers[((i + 1) % Len(sg.speakers)) + 1]
        s_r_amp == v_speaker_relative_amplitude(s, sg.k_coefficient, sg.a_coefficient)
    IN  Div(s_r_amp, n.distance)

\* the value next yields at (0-based) position i: s_r_amp / s.distance
next_value(sg, i) ==
    LET s == sg.speakers[i + 1]
        s_r_amp == v_speaker_relative_amplitude(s, sg.k_coefficient, sg.a_coefficient)
    IN  Div(s_r_amp, s.distance)

\* a slip: the end of the sequence reported one position early
next_ret_early(sg) ==
    IF sg.i + 1 >= Len(sg.speakers) THEN None
    ELSE Some(next_value(sg, sg.i))

\* what next returns
next_ret(sg) ==
    IF sg.i >= Len(sg.speakers) THEN None
    ELSE Some(next_value(sg, sg.i))

\* a slip: the cursor advanced before the bounds check
next_self_always(sg) == [sg EXCEPT !.i = @ + 1]

\* what next leaves in *self
next_self(sg) ==
    IF sg.i >= Len(sg.speakers) THEN sg
    ELSE [sg EXCEPT !.i = @ + 1]

-----------------------------------------------------------------------------
(* The producer's life: construction, then calls of next *)

Init ==
    /\ input_speakers \in SpeakerSeqs
    /\ rolloff_db \in RolloffVals
    /\ self = NoSelf
    /\ pc = "start"
    /\ ret = NoCall
    /\ yielded = <<>>
    /\ ends = 0
    /\ args = <<>>
    /\ result = <<>>

\* SpeakerGains::new(speakers, rolloff_db): panics on an empty slice
SpeakerGains_new ==
    /\ pc = "start"
    /\ IF new_assert(input_speakers)
       THEN /\ self' = new_self(input_speakers, rolloff_db)
            /\ pc' = "ready"
       ELSE /\ self' = self
            /\ pc' = "panicked"
    /\ UNCHANGED <<input_speakers, rolloff_db, ret, yielded, ends, args, result>>

\* Iterator::next(&mut self)
SpeakerGains_next ==
    /\ pc = "ready"
    /\ ends < MaxEnds
    /\ self' = next_self(self)
    /\ ret' = next_ret(self)
    /\ yielded' = IF ret'.tag = "Some" THEN Append(yielded, ret'.val) ELSE yielded
    /\ ends' = IF ret'.tag = "None" THEN ends + 1 ELSE ends
    /\ UNCHANGED <<input_speakers, rolloff_db, pc, args, result>>

Next == SpeakerGains_new \/ SpeakerGains_next

Spec == Init /\ [][Next]_vars

-----------------------------------------------------------------------------
(* k_coefficient called on its own *)

\* the a coefficients handed to k_coefficient
AVals == {a_coefficient(r) : r \in RolloffVals}

InitK ==
    /\ args \in [a : AVals, speakers : SpeakerSeqs]
    /\ result = <<>>
    /\ pc = "fn"
    /\ input_speakers = <<>>
    /\ rolloff_db = From(0)
    /\ self = NoSelf
    /\ ret = NoCall
    /\ yielded = <<>>
    /\ ends = 0

Call_k_coefficient ==
    /\ pc = "fn"
    /\ result' = k_coefficient(args.a, args.speakers)
    /\ pc' = "returned"
    /\ UNCHANGED <<input_speakers, rolloff_db, self, ret, yielded, ends, args>>

NextK == Call_k_coefficient

SpecK == InitK /\ [][NextK]_vars

-----------------------------------------------------------------------------
(* blurred_distance_2 called on its own *)

InitBlur ==
    /\ args \in [source : Points, speaker : Points, blur : BlurVals]
    /\ result = <<>>
    /\ pc = "fn"
    /\ input_speakers = <<>>
    /\ rolloff_db = From(0)
    /\ self = NoSelf
    /\ ret = NoCall
    /\ yielded = <<>>
    /\ ends = 0

Call_blurred_distance_2 ==
    /\ pc = "fn"
    /\ result' = blurred_distance_2(args.source, args.speaker, args.blur)
    /\ pc' = "returned"
    /\ UNCHANGED <<input_speakers, rolloff_db, self, ret, yielded, ends, args>>

NextBlur == Call_blurred_distance_2

SpecBlur == InitBlur /\ [][NextBlur]_vars

-----------------------------------------------------------------------------
(* Helpers of the properties *)

\* x < y, for finite scalars
Less(x, y) == IsFinite(x) /\ IsFinite(y) /\ x[1] * y[2] < y[1] * x[2]

\* the producer has been built and drained to its end
Drained == pc = "ready" /\ ret.tag = "None"

\* the speaker behind the j-th yielded value (1-based)
SpeakerOf(j) == input_speakers[j]

-----------------------------------------------------------------------------
(* C1: a producer built from n >= 1 speakers yields exactly n values before *)
(* its end, and the value at each position is the gain of the speaker at    *)
(* that position of the input: none skipped, none repeated.                 *)
C1_OnePerSpeakerInOrder ==
    pc = "ready" =>
        /\ Len(yielded) <= Len(input_speakers)
        /\ \A j \in 1..Len(yielded) :
               yielded[j] = Div(v_speaker_relative_amplitude(SpeakerOf(j),
                                    self.k_coefficient, self.a_coefficient),
                                SpeakerOf(j).distance)
        /\ (ret.tag = "None" => Len(yielded) = Len(input_speakers))

\* three speakers drained, with three different gains
C1_Witness ==
    /\ Drained
    /\ Len(yielded) = 3
    /\ yielded[1] # yielded[2]
    /\ yielded[2] # yielded[3]
    /\ yielded[1] # yielded[3]

-----------------------------------------------------------------------------
(* C2: SpeakerGains::new with an empty slice fails for every rolloff: no    *)
(* producer exists afterwards and nothing is ever yielded.                  *)
C2_EmptyInputFails ==
    (Len(input_speakers) = 0 /\ pc # "start") =>
        /\ pc = "panicked"
        /\ self = NoSelf
        /\ ret = NoCall
        /\ yielded = <<>>

\* the constructor ran on an empty slice
C2_Witness == pc = "panicked" /\ Len(input_speakers) = 0 /\ rolloff_db = From(20)

-----------------------------------------------------------------------------
(* C3: k_coefficient(a, speakers) is 2a / sum, where sum adds w^2 / d^2 for *)
(* each speaker of non-zero distance and nothing for a speaker of distance  *)
(* zero; it is exactly zero when sum is zero, which is so whenever every    *)
(* speaker has weight zero or distance zero.                                *)
C3_Share(s) ==
    IF s.distance[1] = 0 THEN <<0, 1>>
    ELSE Rat(s.weight[1] * s.weight[1] * s.distance[2] * s.distance[2],
             s.weight[2] * s.weight[2] * s.distance[1] * s.distance[1])

RECURSIVE C3_Total(_)
C3_Total(speakers) ==
    IF speakers = <<>> THEN <<0, 1>>
    ELSE LET h == C3_Share(Head(speakers))
             t == C3_Total(Tail(speakers))
         IN  Rat(h[1] * t[2] + t[1] * h[2], h[2] * t[2])

C3_KCoefficient ==
    pc = "returned" =>
        LET sum == C3_Total(args.speakers)
        IN  /\ sum[1] = 0 => result = <<0, 1>>
            /\ sum[1] # 0 => result = Rat(2 * args.a[1] * sum[2], args.a[2] * sum[1])
            /\ (\A j \in 1..Len(args.speakers) :
                    args.speakers[j].weight[1] = 0 \/ args.speakers[j].distance[1] = 0)
                   => result = <<0, 1>>

\* a speaker of distance zero and non-zero weight beside one that counts
C3_Witness ==
    /\ pc = "returned"
    /\ \E j \in 1..Len(args.speakers) :
           args.speakers[j].distance[1] = 0 /\ args.speakers[j].weight[1] # 0
    /\ result[1] # 0
    /\ IsFinite(result)

-----------------------------------------------------------------------------
(* C4: the value yielded at position i is k * w_i / (2 * d_i * a) / d_i,    *)
(* with a = a_coefficient(rolloff) and k = k_coefficient(a, speakers) as    *)
(* computed at construction; no call of next changes a, k or the speakers.  *)
C4_Formula(s, k, a) ==
    Div(Div(Mul(k, s.weight), Mul(Mul(From(2), s.distance), a)), s.distance)

C4_GainFormula ==
    /\ [](pc = "ready" =>
            /\ self.speakers = input_speakers
            /\ self.a_coefficient = a_coefficient(rolloff_db)
            /\ self.k_coefficient = k_coefficient(a_coefficient(rolloff_db), input_speakers))
    /\ [][pc = "ready" =>
            /\ self'.speakers = self.speakers
            /\ self'.a_coefficient = self.a_coefficient
            /\ self'.k_coefficient = self.k_coefficient
            /\ (ret'.tag = "Some" =>
                    ret'.val = C4_Formula(input_speakers[self.i + 1],
                                   k_coefficient(a_coefficient(rolloff_db), input_speakers),
                                   a_coefficient(rolloff_db)))]_vars

\* a finite non-zero gain yielded at the third position, with a # 1
C4_Witness ==
    /\ pc = "ready"
    /\ ret.tag = "Some"
    /\ self.i = 3
    /\ IsFinite(ret.val)
    /\ ret.val[1] # 0
    /\ self.a_coefficient # From(1)

-----------------------------------------------------------------------------
(* C5, as claimed: of two speakers with the same weight and positive        *)
(* distances d1 < d2, the one at d1 is yielded the strictly greater gain,   *)
(* whatever the shared weight.                                              *)
C5_MonotoneAnyWeight ==
    pc = "ready" =>
        \A j, l \in 1..Len(yielded) :
            (/\ SpeakerOf(j).weight = SpeakerOf(l).weight
             /\ Less(From(0), SpeakerOf(j).distance)
             /\ Less(SpeakerOf(j).distance, SpeakerOf(l).distance))
                => Less(yielded[l], yielded[j])

(* C5, amended: the same, for a shared weight that is strictly positive.    *)
C5_MonotonePositiveWeight ==
    pc = "ready" =>
        \A j, l \in 1..Len(yielded) :
            (/\ SpeakerOf(j).weight = SpeakerOf(l).weight
             /\ Less(From(0), SpeakerOf(j).weight)
             /\ Less(From(0), SpeakerOf(j).distance)
             /\ Less(SpeakerOf(j).distance, SpeakerOf(l).distance))
                => Less(yielded[l], yielded[j])

\* the farther speaker first, the closer one last, a speaker of distance zero between
C5_Witness ==
    /\ Drained
    /\ Len(yielded) = 3
    /\ SpeakerOf(1).weight = SpeakerOf(3).weight
    /\ Less(From(0), SpeakerOf(1).weight)
    /\ Less(From(0), SpeakerOf(3).distance)
    /\ Less(SpeakerOf(3).distance, SpeakerOf(1).distance)
    /\ SpeakerOf(2).distance = From(0)
    /\ Less(yielded[1], yielded[3])

-----------------------------------------------------------------------------
(* C6: with weights and rolloff fixed, the total loudness of the yielded    *)
(* gains (the sum of their squares) is the same for every assignment of     *)
(* positive distances to the speakers.  Stated here for positive weights    *)
(* only, the case the algorithm is published for.                           *)
C6_Gains(speakers, r) ==
    [j \in 1..Len(speakers) |-> next_value(new_self(speakers, r), j - 1)]

C6_Loudness(gains) == Sum([j \in 1..Len(gains) |-> Mul(gains[j], gains[j])])

C6_PositiveDistVals == {d \in DistVals : Less(From(0), d)}

C6_LoudnessPositionIndependent ==
    (/\ Drained
     /\ \A j \in 1..Len(input_speakers) :
            Less(From(0), SpeakerOf(j).distance) /\ Less(From(0), SpeakerOf(j).weight))
        => \A ds \in [1..Len(input_speakers) -> C6_PositiveDistVals] :
               LET moved == [j \in 1..Len(input_speakers) |->
                                [distance |-> ds[j], weight |-> SpeakerOf(j).weight]]
               IN  C6_Loudness(C6_Gains(moved, rolloff_db)) = C6_Loudness(yielded)

-----------------------------------------------------------------------------
(* C7: k_coefficient called with an empty speaker list does not return.     *)
C7_EmptyListPanics == ~(pc = "returned" /\ Len(args.speakers) = 0)

-----------------------------------------------------------------------------
(* C8: blurred_distance_2(source, speaker, blur) is                         *)
(* (speaker.x - source.x)^2 + (speaker.y - source.y)^2 + blur^2: strictly   *)
(* positive for blur # 0, blur^2 when the two points coincide, and 0 when   *)
(* they coincide and blur is 0.                                             *)
C8_SqDiff(p, q) ==
    LET n == p[1] * q[2] - q[1] * p[2]
        d == p[2] * q[2]
    IN  Rat(n * n, d * d)

C8_Plus(x, y) == Rat(x[1] * y[2] + y[1] * x[2], x[2] * y[2])

C8_BlurredDistance ==
    pc = "returned" =>
        LET zero == <<0, 1>>
            blur2 == C8_SqDiff(args.blur, zero)
        IN  /\ result = C8_Plus(C8_Plus(C8_SqDiff(args.speaker[1], args.source[1]),
                                        C8_SqDiff(args.speaker[2], args.source[2])),
                                blur2)
            /\ args.blur # zero => Less(zero, result)
            /\ args.source = args.speaker => result = blur2
            /\ (args.source = args.speaker /\ args.blur = zero) => result = zero

\* source and speaker coincide away from the origin, under a negative blur
C8_Witness ==
    /\ pc = "returned"
    /\ args.source = args.speaker
    /\ args.source[1] # From(0)
    /\ Less(args.blur, From(0))
    /\ result = From(1)

-----------------------------------------------------------------------------
(* C9: two speakers of one collection with the same positive distance and   *)
(* the same weight are yielded the same gain, wherever they stand.          *)
C9_EqualConfigEqualGain ==
    pc = "ready" =>
        \A j, l \in 1..Len(yielded) :
            (/\ SpeakerOf(j).distance = SpeakerOf(l).distance
             /\ SpeakerOf(j).weight = SpeakerOf(l).weight
             /\ Less(From(0), SpeakerOf(j).distance))
                => Eq(yielded[j], yielded[l])

\* two equal speakers around a different one, all with non-zero gains
C9_Witness ==
    /\ Drained
    /\ Len(yielded) = 3
    /\ SpeakerOf(1) = SpeakerOf(3)
    /\ SpeakerOf(1) # SpeakerOf(2)
    /\ Less(From(0), SpeakerOf(1).distance)
    /\ Less(From(0), SpeakerOf(2).distance)
    /\ yielded[1][1] # 0
    /\ Eq(yielded[1], yielded[3])
    /\ ~Eq(yielded[1], yielded[2])

-----------------------------------------------------------------------------
(* C10: the cursor stays within 0..len(speakers); a call of next either     *)
(* yields and advances the cursor by one, or returns the end of the         *)
(* sequence and leaves the producer as it was; after the end of the         *)
(* sequence every later call returns the end of the sequence.               *)
C10_NotRestartable ==
    /\ [](pc = "ready" => self.i >= 0 /\ self.i <= Len(self.speakers))
    /\ [][pc = "ready" =>
            \/ ret'.tag = "Some" /\ self'.i = self.i + 1
            \/ ret'.tag = "None" /\ self' = self]_vars
    /\ [][ret.tag = "None" => ret'.tag = "None"]_vars

\* three values yielded, then the end of the sequence twice
C10_Witness ==
    /\ Drained
    /\ ends = 2
    /\ Len(yielded) = 3
    /\ self.i = 3

=============================================================================
